---- MODULE Spec2Model ----
(***************************************************************************)
(* CourseMetadataImporter (federated_content_connector/                    *)
(* course_metadata_importer.py): the import of course-run metadata from    *)
(* the discovery catalog into the CourseDetails store.                     *)
(*                                                                         *)
(* Python values are modelled as follows.  A dict read from JSON is a      *)
(* record; a JSON list is a sequence; a scalar (a date, a slug, a type) is *)
(* a string and Python's None in a scalar position is the string None.  An *)
(* object-valued position that holds None (or the empty dict, which is as  *)
(* falsy) is Nothing, the empty function.  An insertion-ordered dict built *)
(* by the code is a sequence of <<key, value>> pairs with distinct keys.   *)
(***************************************************************************)
EXTENDS Integers, Sequences, FiniteSets, TLC

VARIABLES
    \* find_best_mode_seat(seats)
    seats, best, seatPc,
    \* chunks(keys): the generator's position and what it has yielded
    keys, chunkPos, yielded, chunkPc,
    \* process_courses_details(courses_details, courserun_with_course_uuids) and
    \* its result; in an import, the locals of import_courses_metadata
    courses_details, courserun_with_course_uuids, processed_courses_details, procPc,
    \* get_response_from_api: the tries made of the call under way, and the
    \* exception that left the operation, if one did
    tries, failure,
    \* import_courses_metadata(courserun_locators)
    courserun_locators, catalog, store, pos, courserun_locators_chunk, store_idx, pc,
    \* what the import has done so far: the store before the first import and
    \* after it, which import is running, the chunk a failure happened in
    store_initial, store_first, round, failed_at,
    \* courses(timestamp): the number of courses the catalog holds as updated since
    \* the timestamp, the url of the query under way, the pages yielded and the
    \* urls that were answered
    timestamp, updated_count, next_url, pulled, queried, pullPc

seatVars == <<seats, best, seatPc>>
chunkVars == <<keys, chunkPos, yielded, chunkPc>>
procVars == <<courses_details, courserun_with_course_uuids, processed_courses_details, procPc>>
callVars == <<tries, failure>>
importVars == <<courserun_locators, catalog, store, pos, courserun_locators_chunk, store_idx, pc,
                store_initial, store_first, round, failed_at>>
pullVars == <<timestamp, updated_count, next_url, pulled, queried, pullPc>>
vars == <<seatVars, chunkVars, procVars, callVars, importVars, pullVars>>

None == "None"
Nothing == <<>>

Min(a, b) == IF a <= b THEN a ELSE b

(***************************************************************************)
(* Course modes and find_best_mode_seat                                    *)
(***************************************************************************)
VERIFIED == "verified"
PROFESSIONAL == "professional"
NO_ID_PROFESSIONAL_MODE == "no-id-professional"
UNPAID_EXECUTIVE_EDUCATION == "unpaid-executive-education"
AUDIT == "audit"

BEST_MODE_ORDER ==
    <<VERIFIED, PROFESSIONAL, NO_ID_PROFESSIONAL_MODE, UNPAID_EXECUTIVE_EDUCATION, AUDIT>>

\* Seat types the catalog may send that BEST_MODE_ORDER does not list.
UnknownModes == {"honor", "credit"}

KnownModes == {BEST_MODE_ORDER[i] : i \in 1..Len(BEST_MODE_ORDER)}

\* list.index: the 0-based position of the first occurrence.
Index(list, x) == (CHOOSE i \in 1..Len(list) : list[i] = x /\ \A j \in 1..(i - 1) : list[j] # x) - 1

sort_key_reversed(mode) ==
    IF mode.type \in KnownModes THEN 1 + Index(BEST_MODE_ORDER, mode.type) ELSE 0

sort_key(mode) ==
    IF mode.type \in KnownModes
    THEN Len(BEST_MODE_ORDER) - Index(BEST_MODE_ORDER, mode.type)
    ELSE 0

\* sorted(xs, key=sort_key, reverse=True): descending by key and stable, items of
\* equal key keep their input order.  An insertion sort that places each item
\* behind every item already placed whose key is not smaller.
RECURSIVE InsertDesc(_, _)
InsertDesc(sorted, x) ==
    IF sorted = <<>> THEN <<x>>
    ELSE IF sort_key(Head(sorted)) >= sort_key(x)
         THEN <<Head(sorted)>> \o InsertDesc(Tail(sorted), x)
         ELSE <<x>> \o sorted

RECURSIVE SortedDesc(_)
SortedDesc(xs) ==
    IF xs = <<>> THEN <<>>
    ELSE InsertDesc(SortedDesc(SubSeq(xs, 1, Len(xs) - 1)), xs[Len(xs)])

find_best_mode_seat_none_when_unknown(ss) ==
    LET sorted_seats == SortedDesc(ss)
    IN  IF sorted_seats # <<>> /\ sort_key(sorted_seats[1]) > 0 THEN sorted_seats[1] ELSE Nothing

find_best_mode_seat(ss) ==
    LET sorted_seats == SortedDesc(ss)
    IN  IF sorted_seats # <<>> THEN sorted_seats[1] ELSE Nothing

(***************************************************************************)
(* chunks                                                                  *)
(***************************************************************************)
chunk_size == 50

Slice_short_by_one(list, i, j) == SubSeq(list, i + 1, Min(j, Len(list)) - 1)

\* keys[i:i + chunk_size] for the 0-based i: a slice stops at the list's end.
Slice(list, i, j) == SubSeq(list, i + 1, Min(j, Len(list)))

\* chunks is a generator over range(0, len(keys), chunk_size): at the 0-based
\* position i it has another chunk exactly when i < len(keys), and yields
\* keys[i:i + chunk_size].
chunks_has_next(list, i) == i < Len(list)

chunks_yield(list, i) == Slice(list, i, i + chunk_size)

(***************************************************************************)
(* Course-run locators.  str(locator) is the course-run key.               *)
(***************************************************************************)
Locator(org, course, run) == [org |-> org, course |-> course, run |-> run]

str(locator) == "course-v1:" \o locator.org \o "+" \o locator.course \o "+" \o locator.run

\* The i-th of a supply of pairwise distinct locators.
NumberedLocator(i) == Locator("fill", "F101", ToString(i))

(***************************************************************************)
(* Insertion-ordered dicts: a sequence of <<key, value>> pairs.            *)
(***************************************************************************)
DictKeys(d) == {d[n][1] : n \in 1..Len(d)}

DictGet(d, k) == d[CHOOSE n \in 1..Len(d) : d[n][1] = k][2]

\* d[k] = v: a key already present keeps its place and takes the new value.
DictSet(d, k, v) ==
    IF k \in DictKeys(d)
    THEN [n \in 1..Len(d) |-> IF d[n][1] = k THEN <<k, v>> ELSE d[n]]
    ELSE Append(d, <<k, v>>)

(***************************************************************************)
(* fetch_course_uuids: the map built from the course_runs results          *)
(***************************************************************************)
MapStr(locators) == [n \in 1..Len(locators) |-> str(locators[n])]

InList(x, list) == \E n \in 1..Len(list) : list[n] = x

RECURSIVE course_uuids_unfiltered(_, _)
course_uuids_unfiltered(results, courserun_keys) ==
    IF results = <<>> THEN <<>>
    ELSE LET result == results[Len(results)]
             before == course_uuids_unfiltered(SubSeq(results, 1, Len(results) - 1), courserun_keys)
         IN  DictSet(before, result.key, result.course_uuid)

\* The loop over the results of the course_runs response: a result whose key
\* is not among the requested keys is passed over, a later result for a key
\* overwrites an earlier one.
RECURSIVE course_uuids_of(_, _)
course_uuids_of(results, courserun_keys) ==
    IF results = <<>> THEN <<>>
    ELSE LET result == results[Len(results)]
             before == course_uuids_of(SubSeq(results, 1, Len(results) - 1), courserun_keys)
         IN  IF ~InList(result.key, courserun_keys)
             THEN before
             ELSE DictSet(before, result.key, result.course_uuid)

(***************************************************************************)
(* find_attr and process_courses_details                                   *)
(***************************************************************************)
EXEC_ED_COURSE_TYPE == "executive-education-2u"
BOOTCAMP_2U == "bootcamp-2u"

\* The first item whose attribute has the value, None when there is none.
find_attr(iterable, attr_name, attr_value) ==
    IF \E n \in 1..Len(iterable) : iterable[n][attr_name] = attr_value
    THEN iterable[CHOOSE n \in 1..Len(iterable) :
                      /\ iterable[n][attr_name] = attr_value
                      /\ \A m \in 1..(n - 1) : iterable[m][attr_name] # attr_value]
    ELSE Nothing

CourseData(course_type, product_source, enroll_by, start_date, end_date) ==
    [course_type |-> course_type, product_source |-> product_source,
     enroll_by |-> enroll_by, start_date |-> start_date, end_date |-> end_date]

\* x or '' for a scalar x: None and '' are falsy.
OrEmpty(x) == IF x = None THEN "" ELSE x

course_data_falling_back_to_run(courses, courserun_key, course_uuid) ==
    LET course_metadata == find_attr(courses, "uuid", course_uuid)
        course_type == OrEmpty(course_metadata.course_type)
        product_source ==
            IF course_metadata.product_source = Nothing THEN ""
            ELSE course_metadata.product_source.slug
        additional_metadata == course_metadata.additional_metadata
        course_run == find_attr(course_metadata.course_runs, "key", courserun_key)
        seat == find_best_mode_seat(course_run.seats)
    IN  IF course_metadata = Nothing THEN Nothing
        ELSE IF course_type \in {EXEC_ED_COURSE_TYPE, BOOTCAMP_2U} /\ additional_metadata # Nothing
        THEN CourseData(course_type, product_source,
                        additional_metadata.registration_deadline,
                        additional_metadata.start_date,
                        additional_metadata.end_date)
        ELSE IF course_run = Nothing
             THEN IF course_type \in {EXEC_ED_COURSE_TYPE, BOOTCAMP_2U}
                  THEN CourseData(course_type, product_source, None, None, None)
                  ELSE Nothing
             ELSE CourseData(course_type, product_source,
                             IF seat # Nothing THEN seat.upgrade_deadline ELSE None,
                             course_run.start, course_run.end)

course_data_without_continue(courses, courserun_key, course_uuid) ==
    LET course_metadata == find_attr(courses, "uuid", course_uuid)
        course_type == OrEmpty(course_metadata.course_type)
        product_source ==
            IF course_metadata.product_source = Nothing THEN ""
            ELSE course_metadata.product_source.slug
        additional_metadata == course_metadata.additional_metadata
        course_run == find_attr(course_metadata.course_runs, "key", courserun_key)
        seat == find_best_mode_seat(course_run.seats)
    IN  IF course_metadata = Nothing THEN Nothing
        ELSE IF course_type \in {EXEC_ED_COURSE_TYPE, BOOTCAMP_2U}
        THEN IF additional_metadata # Nothing
             THEN CourseData(course_type, product_source,
                             additional_metadata.registration_deadline,
                             additional_metadata.start_date,
                             additional_metadata.end_date)
             ELSE CourseData(course_type, product_source, None, None, None)
        ELSE IF course_run = Nothing
             THEN CourseData(course_type, product_source, None, None, None)
             ELSE CourseData(course_type, product_source,
                             IF seat # Nothing THEN seat.upgrade_deadline ELSE None,
                             course_run.start, course_run.end)

\* The body of the loop of process_courses_details for one item of the map:
\* the course_data stored under courserun_key, or Nothing when the body
\* leaves by a continue.
course_data_of(courses, courserun_key, course_uuid) ==
    LET course_metadata == find_attr(courses, "uuid", course_uuid)
        course_type == OrEmpty(course_metadata.course_type)
        product_source ==
            IF course_metadata.product_source = Nothing THEN ""
            ELSE course_metadata.product_source.slug
        additional_metadata == course_metadata.additional_metadata
        course_run == find_attr(course_metadata.course_runs, "key", courserun_key)
        seat == find_best_mode_seat(course_run.seats)
    IN  IF course_metadata = Nothing THEN Nothing
        ELSE IF course_type \in {EXEC_ED_COURSE_TYPE, BOOTCAMP_2U}
        THEN IF additional_metadata # Nothing
             THEN CourseData(course_type, product_source,
                             additional_metadata.registration_deadline,
                             additional_metadata.start_date,
                             additional_metadata.end_date)
             ELSE CourseData(course_type, product_source, None, None, None)
        ELSE IF course_run = Nothing THEN Nothing
             ELSE CourseData(course_type, product_source,
                             IF seat # Nothing THEN seat.upgrade_deadline ELSE None,
                             course_run.start, course_run.end)

RECURSIVE process_courses_details(_, _)
process_courses_details(courses, uuids) ==
    IF uuids = <<>> THEN <<>>
    ELSE LET item == uuids[Len(uuids)]
             before == process_courses_details(courses, SubSeq(uuids, 1, Len(uuids) - 1))
             course_data == course_data_of(courses, item[1], item[2])
         IN  IF course_data = Nothing THEN before
             ELSE DictSet(before, item[1], course_data)

(***************************************************************************)
(* get_response_from_api and raise_for_status                              *)
(***************************************************************************)
max_tries == 3

\* What one client.get(api_url) can do: raise (the transport failed), or
\* return a response with a status code.
ClientGetOutcomes ==
    {[raises |-> TRUE, status |-> 0]} \cup {[raises |-> FALSE, status |-> c] : c \in {200, 404, 503}}

\* backoff.on_exception(backoff.expo, Exception, max_tries=3) around
\* client.get: a try that raises is followed by another while fewer than
\* max_tries tries were made, and the exception of the last try is raised; a
\* try that returns a response ends the call, whatever the response's status.
get_response_from_api(outcome, tries_made) ==
    IF outcome.raises
    THEN IF tries_made + 1 < max_tries THEN "retry" ELSE "raise"
    ELSE "return"

\* response.raise_for_status() raises HTTPError for a 4xx or 5xx status.
raise_for_status(status) == 400 <= status /\ status < 600

(***************************************************************************)
(* The CourseDetails store: a set of rows, each with the course-run key as *)
(* its id.                                                                 *)
(***************************************************************************)
Row(id, defaults) ==
    [id |-> id, course_type |-> defaults.course_type, product_source |-> defaults.product_source,
     enroll_by |-> defaults.enroll_by, start_date |-> defaults.start_date,
     end_date |-> defaults.end_date]

create(rows, id, defaults) == rows \cup {Row(id, defaults)}

\* CourseDetails.objects.update_or_create(id=id, defaults=defaults): the row of
\* that id takes every field of defaults; without such a row one is created.
update_or_create(rows, id, defaults) ==
    IF \E r \in rows : r.id = id
    THEN {IF r.id = id THEN Row(id, defaults) ELSE r : r \in rows}
    ELSE rows \cup {Row(id, defaults)}

\* No statement of import_courses_metadata catches an exception: one raised
\* in the loop's body leaves the loop and the import.
PcAfterRaise_next_chunk == "loop"

PcAfterRaise == "failed"

(***************************************************************************)
(* Bounds of the model                                                     *)
(***************************************************************************)
MaxSeats == 3
MaxKeys == 101
MaxRunSeats == 2
MaxShortList == 2
MaxFullChunks == 1
MaxUpdated == 120

(***************************************************************************)
(* Idle values: what the variables of an operation hold in a specification *)
(* that does not run it.                                                   *)
(***************************************************************************)
IdleSeat == seats = <<>> /\ best = Nothing /\ seatPc = "idle"
IdleChunk == keys = <<>> /\ chunkPos = 0 /\ yielded = <<>> /\ chunkPc = "idle"
IdleProc ==
    /\ courses_details = <<>>
    /\ courserun_with_course_uuids = <<>>
    /\ processed_courses_details = <<>>
    /\ procPc = "idle"
IdleCall == tries = 0 /\ failure = "none"
IdleImport ==
    /\ courserun_locators = <<>>
    /\ catalog = [course_runs |-> <<>>, courses |-> <<>>]
    /\ store = {}
    /\ pos = 0
    /\ courserun_locators_chunk = <<>>
    /\ store_idx = 0
    /\ pc = "idle"
    /\ store_initial = {}
    /\ store_first = {}
    /\ round = 0
    /\ failed_at = 0
IdlePull ==
    /\ timestamp = None
    /\ updated_count = 0
    /\ next_url = Nothing
    /\ pulled = <<>>
    /\ queried = <<>>
    /\ pullPc = "idle"

(***************************************************************************)
(* Specification SpecSeats: find_best_mode_seat on every seat list of up   *)
(* to MaxSeats seats.                                                      *)
(***************************************************************************)
Deadlines == {"2024-01-01", "2024-02-01"}

SeatSet == [type : KnownModes \cup UnknownModes, upgrade_deadline : Deadlines]

SeatLists == UNION {[1..n -> SeatSet] : n \in 0..MaxSeats}

InitSeats ==
    /\ seats \in SeatLists
    /\ best = Nothing
    /\ seatPc = "call"
    /\ IdleChunk /\ IdleProc /\ IdleCall /\ IdleImport /\ IdlePull

FindBestModeSeat ==
    /\ seatPc = "call"
    /\ best' = find_best_mode_seat(seats)
    /\ seatPc' = "returned"
    /\ UNCHANGED <<seats, chunkVars, procVars, callVars, importVars, pullVars>>

NextSeats == FindBestModeSeat

SpecSeats == InitSeats /\ [][NextSeats]_vars

(***************************************************************************)
(* Specification SpecChunks: the chunks generator, run to exhaustion on    *)
(* lists of 0..MaxKeys keys.                                               *)
(***************************************************************************)
KeyLists ==
    {[i \in 1..n |-> NumberedLocator(i)] : n \in 0..MaxKeys}
        \cup {[i \in 1..n |-> NumberedLocator(n + 1 - i)] : n \in 0..MaxKeys}

InitChunks ==
    /\ keys \in KeyLists
    /\ chunkPos = 0
    /\ yielded = <<>>
    /\ chunkPc = "iter"
    /\ IdleSeat /\ IdleProc /\ IdleCall /\ IdleImport /\ IdlePull

\* One next() of the generator that finds another chunk.
ChunksYield ==
    /\ chunkPc = "iter"
    /\ chunks_has_next(keys, chunkPos)
    /\ yielded' = Append(yielded, chunks_yield(keys, chunkPos))
    /\ chunkPos' = chunkPos + chunk_size
    /\ UNCHANGED <<keys, chunkPc, seatVars, procVars, callVars, importVars, pullVars>>

\* The next() that finds the range exhausted: StopIteration.
ChunksStop ==
    /\ chunkPc = "iter"
    /\ ~chunks_has_next(keys, chunkPos)
    /\ chunkPc' = "done"
    /\ UNCHANGED <<keys, chunkPos, yielded, seatVars, procVars, callVars, importVars, pullVars>>

NextChunks == ChunksYield \/ ChunksStop

SpecChunks == InitChunks /\ [][NextChunks]_vars

(***************************************************************************)
(* Specification SpecProcess: process_courses_details on a courses         *)
(* response and a map of course-run keys to course uuids.  The response    *)
(* holds one course of uuid CourseUuid, every combination of course type,  *)
(* product source, additional metadata and course runs, alone or beside a  *)
(* second course of another uuid.                                          *)
(***************************************************************************)
LocA == Locator("edX", "DemoX", "2024_T1")
LocB == Locator("edX", "DemoX", "2024_T2")

CourseUuid == "uuid-1"
OtherUuid == "uuid-2"

RunSeats == [type : {AUDIT, VERIFIED, "honor"}, upgrade_deadline : {None, "2024-02-01"}]

RunSeatLists == UNION {[1..n -> RunSeats] : n \in 0..MaxRunSeats}

CourseRun(key, seatList) ==
    [key |-> key, start |-> "2024-06-01", end |-> "2024-07-01", seats |-> seatList]

CourseRunLists ==
    {<<>>}
        \cup {<<CourseRun(str(l), ss)>> : l \in {LocA, LocB}, ss \in RunSeatLists}
        \cup {<<CourseRun(str(LocB), <<>>), CourseRun(str(LocA), ss)>> : ss \in RunSeatLists}

AdditionalMetadata ==
    [registration_deadline |-> "2024-03-01", start_date |-> "2024-04-01", end_date |-> "2024-05-01"]

Course(uuid, course_type, product_source, additional_metadata, course_runs) ==
    [uuid |-> uuid, course_type |-> course_type, product_source |-> product_source,
     additional_metadata |-> additional_metadata, course_runs |-> course_runs]

CourseTypes == {None, "verified-audit", EXEC_ED_COURSE_TYPE, BOOTCAMP_2U}

Courses ==
    {Course(CourseUuid, t, ps, am, runs) :
        t \in CourseTypes,
        ps \in {Nothing, [slug |-> "edx"]},
        am \in {Nothing, AdditionalMetadata},
        runs \in CourseRunLists}

OtherCourse ==
    Course(OtherUuid, "verified-audit", [slug |-> "2u"], AdditionalMetadata,
           <<CourseRun(str(LocB), <<[type |-> AUDIT, upgrade_deadline |-> None],
                                   [type |-> VERIFIED, upgrade_deadline |-> "2024-02-01"]>>)>>)

InitProcess ==
    /\ \E c \in Courses : courses_details \in {<<c>>, <<OtherCourse, c>>}
    /\ courserun_with_course_uuids \in
           {<<<<str(LocA), CourseUuid>>>>,
            <<<<str(LocB), OtherUuid>>, <<str(LocA), CourseUuid>>>>}
    /\ processed_courses_details = <<>>
    /\ procPc = "call"
    /\ IdleSeat /\ IdleChunk /\ IdleCall /\ IdleImport /\ IdlePull

ProcessCoursesDetails ==
    /\ procPc = "call"
    /\ processed_courses_details' =
           process_courses_details(courses_details, courserun_with_course_uuids)
    /\ procPc' = "returned"
    /\ UNCHANGED <<courses_details, courserun_with_course_uuids,
                   seatVars, chunkVars, callVars, importVars, pullVars>>

NextProcess == ProcessCoursesDetails

SpecProcess == InitProcess /\ [][NextProcess]_vars

(***************************************************************************)
(* Specification SpecImport: import_courses_metadata, run once and then    *)
(* once more on the same locators against the same catalog.                *)
(*                                                                         *)
(* The catalog is its payload: the results of a course_runs response and   *)
(* of a courses response.  Both are returned whatever keys or uuids the    *)
(* query names, so a response can hold course runs and courses that were   *)
(* not asked for; the code looks up in them only what it asked for.  The   *)
(* query strings (quote_plus, urljoin) reach only the catalog and are not  *)
(* modelled.                                                               *)
(***************************************************************************)
\* A course run the catalog knows and no import asks for.
LocX == Locator("HarvardX", "CS50", "2024_T1")

RunResult(locator, course_uuid) == [key |-> str(locator), course_uuid |-> course_uuid]

ResultA == RunResult(LocA, CourseUuid)
ResultB == RunResult(LocB, OtherUuid)
ResultX == RunResult(LocX, CourseUuid)

\* The results of the course_runs response: for none, one or both of the
\* locators an import asks for, in either order, with or without the course
\* run nobody asks for, and with a key that comes twice with two uuids.
CourseRunsResponses ==
    {<<>>, <<ResultA>>, <<ResultB>>, <<ResultX>>,
     <<ResultA, ResultB>>, <<ResultB, ResultA>>, <<ResultX, ResultB>>,
     <<ResultA, ResultX, ResultB>>, <<RunResult(LocB, CourseUuid), ResultA, ResultB>>}

VerifiedAndAudit ==
    <<[type |-> AUDIT, upgrade_deadline |-> None],
      [type |-> VERIFIED, upgrade_deadline |-> "2024-02-01"]>>

StandardCourse ==
    Course(CourseUuid, "verified-audit", [slug |-> "edx"], Nothing,
           <<CourseRun(str(LocA), VerifiedAndAudit), CourseRun(str(LocX), <<>>)>>)

ExecEdCourse == Course(OtherUuid, EXEC_ED_COURSE_TYPE, [slug |-> "2u"], AdditionalMetadata, <<>>)

CourseWithoutRuns == Course(OtherUuid, "verified-audit", Nothing, AdditionalMetadata, <<>>)

CourseWithRunB ==
    Course(OtherUuid, "professional", Nothing, Nothing, <<CourseRun(str(LocB), <<>>)>>)

CoursesResponses ==
    {<<>>, <<StandardCourse>>, <<ExecEdCourse>>,
     <<StandardCourse, ExecEdCourse>>, <<StandardCourse, CourseWithoutRuns>>,
     <<CourseWithRunB, StandardCourse>>, <<ExecEdCourse, CourseWithRunB>>}

\* n locators: first, then distinct locators the catalog does not know, then last.
LongList(n, first, last) ==
    [p \in 1..n |-> IF p = 1 THEN first ELSE IF p = n THEN last ELSE NumberedLocator(p)]

LocatorLists ==
    UNION {[1..n -> {LocA, LocB}] : n \in 0..MaxShortList}
        \cup {LongList(c * chunk_size + 1, ends[1], ends[2]) :
                  c \in 1..MaxFullChunks, ends \in {<<LocA, LocB>>, <<LocB, LocA>>}}

StaleData == CourseData("old-type", "old-source", "2020-01-01", "2020-02-01", "2020-03-01")

InitialStores == {{}, {Row(str(LocA), StaleData), Row(str(LocX), StaleData)}}

InitImport ==
    /\ courserun_locators \in LocatorLists
    /\ \E runs \in CourseRunsResponses, courses \in CoursesResponses :
           catalog = [course_runs |-> runs, courses |-> courses]
    /\ store \in InitialStores
    /\ store_initial = store
    /\ store_first = {}
    /\ round = 1
    /\ failed_at = 0
    /\ pos = 0
    /\ courserun_locators_chunk = <<>>
    /\ store_idx = 0
    /\ pc = "loop"
    /\ IdleSeat /\ IdleChunk /\ IdleProc /\ IdleCall /\ IdlePull

\* The number of chunks the loop has taken from the generator.
ChunksTaken == (pos + chunk_size - 1) \div chunk_size

Raise(exception) ==
    /\ failure' = exception
    /\ failed_at' = ChunksTaken
    /\ pc' = PcAfterRaise

\* for courserun_locators_chunk in cls.chunks(courserun_locators): another chunk.
NextChunk ==
    /\ pc = "loop"
    /\ chunks_has_next(courserun_locators, pos)
    /\ courserun_locators_chunk' = chunks_yield(courserun_locators, pos)
    /\ pos' = pos + chunk_size
    /\ pc' = "client"
    /\ UNCHANGED <<courserun_locators, catalog, store, store_idx, store_initial, store_first,
                   round, failed_at, seatVars, chunkVars, procVars, callVars, pullVars>>

\* The generator is exhausted: the import returns.
ImportCompleted ==
    /\ pc = "loop"
    /\ ~chunks_has_next(courserun_locators, pos)
    /\ pc' = "done"
    /\ UNCHANGED <<courserun_locators, catalog, store, pos, courserun_locators_chunk, store_idx,
                   store_initial, store_first, round, failed_at,
                   seatVars, chunkVars, procVars, callVars, pullVars>>

\* get_api_client: the service user exists, or User.DoesNotExist is raised.
GetApiClient(user_exists) ==
    /\ pc = "client"
    /\ IF user_exists
       THEN pc' = "course_runs" /\ tries' = 0 /\ UNCHANGED <<failure, failed_at>>
       ELSE Raise("User.DoesNotExist") /\ UNCHANGED tries
    /\ UNCHANGED <<courserun_locators, catalog, store, pos, courserun_locators_chunk, store_idx,
                   store_initial, store_first, round, seatVars, chunkVars, procVars, pullVars>>

\* The try of a call that raises: backoff tries again, or raises.
TryRaises(call) ==
    /\ tries' = tries + 1
    /\ IF call = "retry" THEN UNCHANGED <<pc, failure, failed_at>> ELSE Raise("Exception")

\* The try of a call that returns a response raise_for_status rejects.
StatusRaises ==
    /\ tries' = tries + 1
    /\ Raise("HTTPError")

\* fetch_course_uuids: one try of the course_runs call and, when it returns a
\* response, raise_for_status and the building of the map.
FetchCourseUuids(outcome) ==
    /\ pc = "course_runs"
    /\ LET call == get_response_from_api(outcome, tries)
       IN  CASE call # "return" ->
                    TryRaises(call) /\ UNCHANGED courserun_with_course_uuids
             [] call = "return" /\ raise_for_status(outcome.status) ->
                    StatusRaises /\ UNCHANGED courserun_with_course_uuids
             [] OTHER ->
                    /\ courserun_with_course_uuids' =
                           course_uuids_of(catalog.course_runs, MapStr(courserun_locators_chunk))
                    /\ pc' = "courses"
                    /\ tries' = 0
                    /\ UNCHANGED <<failure, failed_at>>
    /\ UNCHANGED <<courserun_locators, catalog, store, pos, courserun_locators_chunk, store_idx,
                   store_initial, store_first, round, courses_details,
                   processed_courses_details, procPc, seatVars, chunkVars, pullVars>>

\* fetch_courses_details after fetch_course_uuids: one try of the courses call
\* and, when it returns a response, raise_for_status, the results, and
\* process_courses_details on them.
FetchCoursesDetails(outcome) ==
    /\ pc = "courses"
    /\ LET call == get_response_from_api(outcome, tries)
       IN  CASE call # "return" ->
                    /\ TryRaises(call)
                    /\ UNCHANGED <<courses_details, processed_courses_details, store_idx>>
             [] call = "return" /\ raise_for_status(outcome.status) ->
                    /\ StatusRaises
                    /\ UNCHANGED <<courses_details, processed_courses_details, store_idx>>
             [] OTHER ->
                    /\ courses_details' = catalog.courses
                    /\ processed_courses_details' =
                           process_courses_details(catalog.courses, courserun_with_course_uuids)
                    /\ store_idx' = 1
                    /\ pc' = "store"
                    /\ tries' = 0
                    /\ UNCHANGED <<failure, failed_at>>
    /\ UNCHANGED <<courserun_locators, catalog, store, pos, courserun_locators_chunk,
                   store_initial, store_first, round, courserun_with_course_uuids, procPc,
                   seatVars, chunkVars, pullVars>>

\* store_courses_details: the update_or_create of the next item of the
\* processed details, which writes the row or raises a database error.
StoreCourseDetails(written) ==
    /\ pc = "store"
    /\ store_idx <= Len(processed_courses_details)
    /\ IF written
       THEN /\ store' = update_or_create(store,
                                         processed_courses_details[store_idx][1],
                                         processed_courses_details[store_idx][2])
            /\ store_idx' = store_idx + 1
            /\ UNCHANGED <<pc, failure, failed_at>>
       ELSE Raise("DatabaseError") /\ UNCHANGED <<store, store_idx>>
    /\ UNCHANGED <<courserun_locators, catalog, pos, courserun_locators_chunk,
                   store_initial, store_first, round, tries,
                   seatVars, chunkVars, procVars, pullVars>>

\* store_courses_details returns: the loop's body is through.
ChunkImported ==
    /\ pc = "store"
    /\ store_idx > Len(processed_courses_details)
    /\ pc' = "loop"
    /\ UNCHANGED <<courserun_locators, catalog, store, pos, courserun_locators_chunk, store_idx,
                   store_initial, store_first, round, failed_at,
                   seatVars, chunkVars, procVars, callVars, pullVars>>

\* import_specific_courses_metadata is called again with the same locators.
ImportAgain ==
    /\ pc = "done"
    /\ round = 1
    /\ round' = 2
    /\ store_first' = store
    /\ pos' = 0
    /\ courserun_locators_chunk' = <<>>
    /\ store_idx' = 0
    /\ courses_details' = <<>>
    /\ courserun_with_course_uuids' = <<>>
    /\ processed_courses_details' = <<>>
    /\ pc' = "loop"
    /\ UNCHANGED <<courserun_locators, catalog, store, store_initial, failed_at, procPc,
                   seatVars, chunkVars, callVars, pullVars>>

NextImport ==
    \/ NextChunk
    \/ ImportCompleted
    \/ \E user_exists \in BOOLEAN : GetApiClient(user_exists)
    \/ \E outcome \in ClientGetOutcomes : FetchCourseUuids(outcome)
    \/ \E outcome \in ClientGetOutcomes : FetchCoursesDetails(outcome)
    \/ \E written \in BOOLEAN : StoreCourseDetails(written)
    \/ ChunkImported
    \/ ImportAgain

SpecImport == InitImport /\ [][NextImport]_vars

(***************************************************************************)
(* Specification SpecPull: the generator courses(timestamp), driven to     *)
(* exhaustion, against a catalog that holds updated_count courses updated  *)
(* since the timestamp and serves them limit courses a page, each page but *)
(* the last with the url of the next.                                      *)
(***************************************************************************)
limit == 50

\* urljoin(api_base_url, "courses/?" + urlencode(query_params))
InitialUrl(ts) ==
    [path |-> "courses/", timestamp |-> ts, limit |-> limit,
     include_hidden_course_runs |-> 1, offset |-> 0]

\* The catalog's response to a query: the courses offset + 1 .. offset + limit
\* of the count it holds, and the url of the next page when courses remain.
CatalogPage(url, count) ==
    [results |-> [r \in 1..(Min(url.offset + url.limit, count) - url.offset) |-> url.offset + r],
     next |-> IF url.offset + url.limit < count
              THEN [url EXCEPT !.offset = url.offset + url.limit]
              ELSE Nothing,
     count |-> count]

\* get_api_reponse: results, next and count of the response.
get_api_reponse(page) == <<page.results, page.next, page.count>>

while_next_url_never(url) == FALSE

\* while next_url: None and the empty string end the loop.
while_next_url(url) == url # Nothing

Timestamps == {"2024-01-01T00:00:00", "2024-06-01T00:00:00"}

InitPull ==
    /\ timestamp \in Timestamps
    /\ updated_count \in 0..MaxUpdated
    /\ next_url = Nothing
    /\ pulled = <<>>
    /\ queried = <<>>
    /\ pullPc = "start"
    /\ IdleSeat /\ IdleChunk /\ IdleProc /\ IdleCall /\ IdleImport

PullRaise(exception) == failure' = exception /\ pullPc' = "failed"

\* The first next(): query_params, get_api_client, api_url.
CoursesStart(user_exists) ==
    /\ pullPc = "start"
    /\ IF user_exists
       THEN /\ next_url' = InitialUrl(timestamp)
            /\ pullPc' = "query"
            /\ UNCHANGED failure
       ELSE PullRaise("User.DoesNotExist") /\ UNCHANGED next_url
    /\ UNCHANGED <<timestamp, updated_count, pulled, queried, tries,
                   seatVars, chunkVars, procVars, importVars>>

\* One try of the query under way; a response that raise_for_status accepts is
\* unpacked by get_api_reponse and its results are yielded.
CoursesQuery(outcome) ==
    /\ pullPc = "query"
    /\ LET call == get_response_from_api(outcome, tries)
           response == get_api_reponse(CatalogPage(next_url, updated_count))
       IN  CASE call = "retry" ->
                    tries' = tries + 1 /\ UNCHANGED <<pullPc, failure, next_url, pulled, queried>>
             [] call = "raise" ->
                    /\ tries' = tries + 1
                    /\ PullRaise("Exception")
                    /\ UNCHANGED <<next_url, pulled, queried>>
             [] call = "return" /\ raise_for_status(outcome.status) ->
                    /\ tries' = tries + 1
                    /\ PullRaise("HTTPError")
                    /\ UNCHANGED <<next_url, pulled, queried>>
             [] OTHER ->
                    /\ queried' = Append(queried, next_url)
                    /\ pulled' = Append(pulled, response[1])
                    /\ next_url' = response[2]
                    /\ pullPc' = "yielded"
                    /\ tries' = 0
                    /\ UNCHANGED failure
    /\ UNCHANGED <<timestamp, updated_count, seatVars, chunkVars, procVars, importVars>>

\* The next() after a yield finds a next_url: another query.
CoursesNext ==
    /\ pullPc = "yielded"
    /\ while_next_url(next_url)
    /\ pullPc' = "query"
    /\ UNCHANGED <<timestamp, updated_count, next_url, pulled, queried,
                   seatVars, chunkVars, procVars, callVars, importVars>>

\* The next() after a yield finds no next_url: the generator ends.
CoursesExhausted ==
    /\ pullPc = "yielded"
    /\ ~while_next_url(next_url)
    /\ pullPc' = "done"
    /\ UNCHANGED <<timestamp, updated_count, next_url, pulled, queried,
                   seatVars, chunkVars, procVars, callVars, importVars>>

NextPull ==
    \/ \E user_exists \in BOOLEAN : CoursesStart(user_exists)
    \/ \E outcome \in ClientGetOutcomes : CoursesQuery(outcome)
    \/ CoursesNext
    \/ CoursesExhausted

SpecPull == InitPull /\ [][NextPull]_vars

(***************************************************************************)
(* Claims about find_best_mode_seat                                        *)
(***************************************************************************)
AllUnknown(ss) == \A i \in 1..Len(ss) : ss[i].type \notin KnownModes

\* The position of a seat's mode in the order verified > professional >
\* no-id-professional > unpaid-executive-education > audit; unknown modes
\* come after all of them.
Rank(seat) ==
    CASE seat.type = "verified" -> 1
      [] seat.type = "professional" -> 2
      [] seat.type = "no-id-professional" -> 3
      [] seat.type = "unpaid-executive-education" -> 4
      [] seat.type = "audit" -> 5
      [] OTHER -> 6

\* C2 as stated: find_best_mode_seat returns none for an empty seat list and
\* for a seat list whose seats are all of unknown type.
C2_NoneForEmptyOrAllUnknown ==
    (seatPc = "returned" /\ AllUnknown(seats)) => best = Nothing

\* C2 amended: find_best_mode_seat returns none exactly for the empty seat
\* list; for a non-empty list whose seats are all of unknown type it returns
\* the first seat of the list.
C2_NoneOnlyForEmpty ==
    seatPc = "returned" =>
        /\ (best = Nothing) <=> (seats = <<>>)
        /\ (seats # <<>> /\ AllUnknown(seats)) => best = seats[1]

C2_Witness ==
    /\ seatPc = "returned"
    /\ Len(seats) = 2
    /\ AllUnknown(seats)
    /\ seats[1] # seats[2]
    /\ best = seats[1]

\* C3: for a seat list with at least one seat of a known mode,
\* find_best_mode_seat returns the seat at the first position that holds a
\* mode of the best rank present in the list.
C3_BestModeFirstOccurrence ==
    (seatPc = "returned" /\ ~AllUnknown(seats)) =>
        \E i \in 1..Len(seats) :
            /\ best = seats[i]
            /\ \A j \in 1..Len(seats) : Rank(seats[i]) <= Rank(seats[j])
            /\ \A j \in 1..(i - 1) : Rank(seats[i]) < Rank(seats[j])
            /\ Rank(seats[i]) <= 5

C3_Witness ==
    /\ seatPc = "returned"
    /\ Len(seats) = 3
    /\ seats[1].type = "audit"
    /\ seats[2].type = "professional"
    /\ seats[3].type = "professional"
    /\ seats[2] # seats[3]
    /\ best = seats[2]

(***************************************************************************)
(* Claims about chunks                                                     *)
(***************************************************************************)
RECURSIVE Concat(_)
Concat(ss) == IF ss = <<>> THEN <<>> ELSE Head(ss) \o Concat(Tail(ss))

\* C9: chunks yields ceil(N/50) chunks for a list of N keys (none for N = 0),
\* each non-empty and of at most 50 keys, and the chunks concatenated in the
\* order yielded are the input list.
C9_ChunksPartitionInOrder ==
    /\ \A c \in 1..Len(yielded) : Len(yielded[c]) \in 1..50
    /\ chunkPc = "done" =>
        /\ Len(yielded) = (Len(keys) + 49) \div 50
        /\ Concat(yielded) = keys

C9_Witness ==
    /\ chunkPc = "done"
    /\ Len(keys) = 101
    /\ Len(yielded) = 3
    /\ Len(yielded[3]) = 1

(***************************************************************************)
(* Claims about process_courses_details                                    *)
(***************************************************************************)
\* The course record and course run the catalog response holds for a key.
MatchedCourse(k) ==
    LET u == DictGet(courserun_with_course_uuids, k)
        n == CHOOSE n \in 1..Len(courses_details) :
                 /\ courses_details[n].uuid = u
                 /\ \A m \in 1..(n - 1) : courses_details[m].uuid # u
    IN  courses_details[n]

MatchedRun(k) ==
    LET runs == MatchedCourse(k).course_runs
        n == CHOOSE n \in 1..Len(runs) :
                 runs[n].key = k /\ \A m \in 1..(n - 1) : runs[m].key # k
    IN  runs[n]

IsAlternativeType(course) == course.course_type \in {"executive-education-2u", "bootcamp-2u"}

\* C6: in every record produced, enroll_by, start_date and end_date come from
\* one path.  For an executive-education or bootcamp course they are the
\* registration_deadline, start_date and end_date of additional_metadata (all
\* null without additional_metadata), whatever course runs the course has;
\* for any other course they are the best seat's upgrade_deadline (null
\* without a seat) and the matched course run's start and end, whatever
\* additional_metadata the course has.
C6_DatesFromOnePath ==
    procPc = "returned" =>
        \A n \in 1..Len(processed_courses_details) :
            LET k == processed_courses_details[n][1]
                rec == processed_courses_details[n][2]
                course == MatchedCourse(k)
                dates == <<rec.enroll_by, rec.start_date, rec.end_date>>
            IN  IF IsAlternativeType(course)
                THEN IF course.additional_metadata = Nothing
                     THEN dates = <<None, None, None>>
                     ELSE dates = <<course.additional_metadata.registration_deadline,
                                    course.additional_metadata.start_date,
                                    course.additional_metadata.end_date>>
                ELSE LET run == MatchedRun(k)
                         seat == find_best_mode_seat(run.seats)
                     IN  dates = <<IF run.seats = <<>> THEN None ELSE seat.upgrade_deadline,
                                   run.start, run.end>>

C6_Witness ==
    /\ procPc = "returned"
    /\ Len(processed_courses_details) = 2
    /\ IsAlternativeType(MatchedCourse(str(LocA)))
    /\ MatchedCourse(str(LocA)).additional_metadata = Nothing
    /\ Len(MatchedCourse(str(LocA)).course_runs) = 2
    /\ DictGet(processed_courses_details, str(LocA)).start_date = None
    /\ ~IsAlternativeType(MatchedCourse(str(LocB)))
    /\ MatchedCourse(str(LocB)).additional_metadata # Nothing
    /\ DictGet(processed_courses_details, str(LocB)).enroll_by = "2024-02-01"
    /\ DictGet(processed_courses_details, str(LocB)).start_date = "2024-06-01"

(***************************************************************************)
(* Claims about import_courses_metadata                                    *)
(***************************************************************************)
\* C1: a catalog call that gets a non-success response is tried again, up to
\* 3 tries, and the failure leaves the import only when every try has failed.
C1_NonSuccessResponseIsRetried ==
    failure = "HTTPError" => tries = 3

KeyAt(n) == str(courserun_locators[n])

\* The key is the string form of one of the first n locators.
RequestedAmong(k, n) == \E m \in 1..Min(n, Len(courserun_locators)) : KeyAt(m) = k

Requested(k) == RequestedAmong(k, Len(courserun_locators))

RowsOf(rows, k) == {r \in rows : r.id = k}

Untouched(k) == RowsOf(store, k) = RowsOf(store_initial, k)

\* What the catalog's payload holds for a key: the results of the course_runs
\* response with that key, the uuid the last of them gives, the courses of
\* the courses response with that uuid and the first of them.
RunResultsFor(k) == {n \in 1..Len(catalog.course_runs) : catalog.course_runs[n].key = k}

UuidFor(k) ==
    catalog.course_runs[CHOOSE n \in RunResultsFor(k) : \A m \in RunResultsFor(k) : m <= n].course_uuid

CoursesFor(u) == {n \in 1..Len(catalog.courses) : catalog.courses[n].uuid = u}

CourseFor(k) ==
    catalog.courses[CHOOSE n \in CoursesFor(UuidFor(k)) : \A m \in CoursesFor(UuidFor(k)) : n <= m]

NoMatchingCourse(k) == RunResultsFor(k) = {} \/ CoursesFor(UuidFor(k)) = {}

HasRun(course, k) == \E n \in 1..Len(course.course_runs) : course.course_runs[n].key = k

\* The fields the import writes for a key, Nothing when it writes none.
Expected(k) ==
    IF NoMatchingCourse(k) THEN Nothing
    ELSE IF IsAlternativeType(CourseFor(k)) \/ HasRun(CourseFor(k), k)
         THEN course_data_of(catalog.courses, k, UuidFor(k))
         ELSE Nothing

\* The positions of the locators of the first c chunks.
UpTo(c) == 1..Min(c * 50, Len(courserun_locators))

ChunksCompleted == IF pc \in {"loop", "done"} THEN ChunksTaken ELSE ChunksTaken - 1

\* C4: the chunks are imported one after another in input order.  While chunk
\* k is under way every chunk before it is fetched, extracted and upserted
\* in full, nothing of a later chunk is written and nothing of chunk k is
\* written before its two catalog calls are through; a failure in chunk k
\* ends the import there, with no step after it, and the rows written for
\* the chunks before k stay.
C4_ChunksInOrderFailureAborts ==
    /\ round = 1 =>
        /\ \A n \in UpTo(ChunksCompleted) :
               IF Expected(KeyAt(n)) = Nothing THEN Untouched(KeyAt(n))
               ELSE RowsOf(store, KeyAt(n)) = {Row(KeyAt(n), Expected(KeyAt(n)))}
        /\ \A n \in 1..Len(courserun_locators) \ UpTo(ChunksTaken) :
               Untouched(KeyAt(n)) \/ RequestedAmong(KeyAt(n), 50 * ChunksTaken)
        /\ pc \in {"client", "course_runs", "courses"} =>
               \A n \in UpTo(ChunksTaken) \ UpTo(ChunksTaken - 1) :
                   Untouched(KeyAt(n)) \/ RequestedAmong(KeyAt(n), 50 * (ChunksTaken - 1))
    /\ failure # "none" =>
        /\ pc = "failed"
        /\ failed_at = ChunksTaken
        /\ ~ENABLED NextImport

C4_Witness ==
    /\ round = 1
    /\ pc = "failed"
    /\ failed_at = 2
    /\ Len(courserun_locators) = 51
    /\ Expected(KeyAt(1)) # Nothing
    /\ Expected(KeyAt(51)) # Nothing
    /\ KeyAt(1) # KeyAt(51)
    /\ ~Untouched(KeyAt(1))
    /\ Untouched(KeyAt(51))

\* C5 as stated: a requested key without a matching course record, or whose
\* matched course record has no course run of that key, gets no entry from the
\* extraction and its rows in the store stay as they were.
C5_NoRecordWithoutCourseOrRun ==
    \A n \in 1..Len(courserun_locators) :
        LET k == KeyAt(n)
        IN  (NoMatchingCourse(k) \/ ~HasRun(CourseFor(k), k)) =>
                k \notin DictKeys(processed_courses_details) /\ Untouched(k)

\* C5 amended: a requested key without a matching course record, or whose
\* matched course record is of another type than executive-education and
\* bootcamp and has no course run of that key, gets no entry from the
\* extraction and its rows in the store stay as they were.
C5_NoRecordWithoutCourseOrStandardRun ==
    \A n \in 1..Len(courserun_locators) :
        LET k == KeyAt(n)
        IN  (NoMatchingCourse(k) \/ (~IsAlternativeType(CourseFor(k)) /\ ~HasRun(CourseFor(k), k))) =>
                /\ k \notin DictKeys(processed_courses_details)
                /\ Untouched(k)

C5_Witness ==
    /\ pc = "done"
    /\ failure = "none"
    /\ Requested(str(LocB))
    /\ ~NoMatchingCourse(str(LocB))
    /\ ~IsAlternativeType(CourseFor(str(LocB)))
    /\ ~HasRun(CourseFor(str(LocB)), str(LocB))
    /\ Untouched(str(LocB))
    /\ Requested(str(LocA))
    /\ ~Untouched(str(LocA))

\* C7: a second import of the same locators against the same catalog payload
\* leaves the store as the first import left it, and the store holds one row
\* per course-run key, whatever it held before the first import.
C7_SecondImportChangesNothing ==
    /\ round = 2 => store = store_first
    /\ \A r1 \in store : \A r2 \in store : r1.id = r2.id => r1 = r2

C7_Witness ==
    /\ round = 2
    /\ pc = "done"
    /\ Row(str(LocA), StaleData) \in store_initial
    /\ Row(str(LocA), StaleData) \notin store
    /\ Cardinality(store) = 3

\* C10: an import writes rows only under the keys of its locators.  A row
\* under any other key is as it was before the import, also when the
\* course_runs response holds course runs that were not asked for, and no
\* row is deleted.
C10_OnlyRequestedKeysWritten ==
    /\ \A r \in store : r \in store_initial \/ Requested(r.id)
    /\ \A r \in store_initial :
           /\ r \in store \/ Requested(r.id)
           /\ \E r2 \in store : r2.id = r.id

C10_Witness ==
    /\ pc = "done"
    /\ round = 1
    /\ RunResultsFor(str(LocX)) # {}
    /\ Expected(str(LocX)) # Nothing
    /\ Row(str(LocX), StaleData) \in store
    /\ store # store_initial

(***************************************************************************)
(* Claims about courses(timestamp)                                         *)
(***************************************************************************)
\* The pages of the chain the catalog links for updated_count courses at 50
\* a page: the j-th holds the courses 50 (j - 1) + 1 .. 50 j that exist, and
\* the chain has one page even without any course.
ChainLength == IF updated_count = 0 THEN 1 ELSE (updated_count + 49) \div 50

ChainPage(j) == [r \in 1..(Min(50 * j, updated_count) - 50 * (j - 1)) |-> 50 * (j - 1) + r]

\* C8: courses(timestamp) yields one page per catalog response, in the order
\* of the chain and starting with the response to the timestamp query, and
\* asks nothing after the response without a next pointer: when it ends it
\* has yielded exactly the pages of the chain.
C8_OnePagePerResponseInOrder ==
    /\ Len(pulled) = Len(queried)
    /\ Len(pulled) <= ChainLength
    /\ \A j \in 1..Len(pulled) : pulled[j] = ChainPage(j)
    /\ queried # <<>> =>
           /\ queried[1].timestamp = timestamp
           /\ queried[1].offset = 0
           /\ queried[1].limit = 50
    /\ \A j \in 1..Len(queried) : \A h \in 1..(j - 1) : queried[h] # queried[j]
    /\ pullPc = "done" => Len(pulled) = ChainLength

C8_Witness ==
    /\ pullPc = "done"
    /\ updated_count = 120
    /\ Len(pulled) = 3
    /\ Len(pulled[1]) = 50
    /\ Len(pulled[2]) = 50
    /\ Len(pulled[3]) = 20

====
